---- MODULE Spec2Model ----
(***************************************************************************)
(* Brush stroke management of the webtoon (continuous-scroll) canvas:      *)
(* BrushStrokeManager of                                                   *)
(* src/app/ui/canvas/webtoons/scene_items/brush_stroke_manager.py.         *)
(*                                                                         *)
(* Coordinates are integers.  Stroke vertices lie on a grid of pitch Unit; *)
(* Unit is divisible by every vertex-to-vertex delta (in grid steps) that  *)
(* the bounds allow, so the parametric clip points computed below are      *)
(* exact and the integer divisions in them have no remainder.              *)
(***************************************************************************)
EXTENDS Integers, Sequences, FiniteSets, TLC

VARIABLES
    scene,         \* the live canvas: the path items of self._scene, oldest first
    image_states,  \* per page, the stored list image_states[...]['brush_strokes']
    resident,      \* the pages whose strokes are on the live canvas
    orig,          \* the stroke the user drew at the start
    batch,         \* all_existing_brush_strokes: the input of a redistribution
    flushes,       \* number of calls of save_brush_strokes_to_states so far
    ops,           \* number of calls of the manager so far
    done,          \* the pages loaded and the pages unloaded so far
    last           \* the last operation, its page, and the state it started from

vars == <<scene, image_states, resident, orig, batch, flushes, ops, done, last>>

---------------------------------------------------------------------------
(* Bounds of the model *)

\* longest live stroke, in path elements
MaxLen == 3
\* number of grid columns a vertex can be in (x = 0, Unit, ...)
GridCols == 2
\* calls of save_brush_strokes_to_states in one behaviour
MaxFlush == 1
\* calls of the manager (load, unload, save) in one behaviour
MaxOps == 4
\* longest list given to redistribute_existing_brush_strokes
MaxBatch == 3

---------------------------------------------------------------------------
(* Page geometry: layout_manager and coordinate_converter.image_data *)

Unit == 2 * 2 * 3 * 5

\* layout_manager.image_positions: top of each page in scene coordinates
image_positions == <<0, 2 * Unit, 4 * Unit>>

\* layout_manager.image_heights
image_heights == <<2 * Unit, 2 * Unit, 2 * Unit>>

\* layout_manager.webtoon_width
webtoon_width == 2 * Unit

\* coordinate_converter.image_data[p].shape[1]: the middle page is narrower
\* than the canvas and is centred
image_widths == <<2 * Unit, Unit, 2 * Unit>>

\* len(image_loader.image_file_paths); pages are numbered from 0 in the code,
\* the sequences above are indexed from 1
NumPages == Len(image_positions)

Pages == 0 .. (NumPages - 1)

page_y(p) == image_positions[p + 1]

page_height(p) == image_heights[p + 1]

page_width(p) == image_widths[p + 1]

page_x_offset(p) == (webtoon_width - page_width(p)) \div 2

\* page_bounds = QRectF(page_x_offset, page_y, page_width, page_height)
page_bounds(p) ==
    [left   |-> page_x_offset(p),
     right  |-> page_x_offset(p) + page_width(p),
     top    |-> page_y(p),
     bottom |-> page_y(p) + page_height(p)]

\* layout_manager.get_page_at_position(y): the page whose half-open band
\* [y0, y0 + h) holds y, -1 when no page does
get_page_at_position(y) ==
    IF \E p \in Pages : page_y(p) <= y /\ y < page_y(p) + page_height(p)
    THEN CHOOSE p \in Pages : page_y(p) <= y /\ y < page_y(p) + page_height(p)
    ELSE -1

Point(x, y) == [x |-> x, y |-> y]

\* coordinate_converter.scene_to_page_local_position
scene_to_page_local_position(pt, p) ==
    Point(pt.x - page_x_offset(p), pt.y - page_y(p))

\* coordinate_converter.page_local_to_scene_position
page_local_to_scene_position(pt, p) ==
    Point(pt.x + page_x_offset(p), pt.y + page_y(p))

---------------------------------------------------------------------------
(* QPainterPath: a sequence of elements [type, x, y] *)

MoveToElement == "MoveTo"
LineToElement == "LineTo"

Elem(t, pt) == [type |-> t, x |-> pt.x, y |-> pt.y]

PointOf(e) == Point(e.x, e.y)

\* QPainterPath.moveTo: a MoveTo directly after a MoveTo replaces it
moveTo(path, pt) ==
    IF Len(path) > 0 /\ path[Len(path)].type = MoveToElement
    THEN [path EXCEPT ![Len(path)] = Elem(MoveToElement, pt)]
    ELSE Append(path, Elem(MoveToElement, pt))

\* QPainterPath.lineTo: a path without elements starts at (0, 0); a line to
\* the current position adds nothing
lineTo(path, pt) ==
    LET base == IF Len(path) = 0 THEN <<Elem(MoveToElement, Point(0, 0))>> ELSE path
    IN  IF PointOf(base[Len(base)]) = pt
        THEN base
        ELSE Append(base, Elem(LineToElement, pt))

\* QPainterPath.isEmpty: no element, or a single MoveTo
isEmpty(path) ==
    Len(path) = 0 \/ (Len(path) = 1 /\ path[1].type = MoveToElement)

\* QPainterPath.addPath: an empty path adds nothing; a MoveTo at the end of
\* the receiving path is dropped before the elements are appended
addPath(path, other) ==
    IF isEmpty(other) THEN path
    ELSE IF Len(path) > 0 /\ path[Len(path)].type = MoveToElement
    THEN SubSeq(path, 1, Len(path) - 1) \o other
    ELSE path \o other

---------------------------------------------------------------------------
(* coordinate_converter.find_page_boundary_intersection: parametric clipping *)
(* of the segment p0 -> p1 against the four half-planes of the page's        *)
(* rectangle; the clip parameter t is a fraction n/d with d > 0              *)

NoPoint == [none |-> TRUE]

Frac(n, d) == IF d < 0 THEN [n |-> -n, d |-> -d] ELSE [n |-> n, d |-> d]

FracLE(a, b) == a.n * b.d <= b.n * a.d

FracMax(a, b) == IF FracLE(a, b) THEN b ELSE a

FracMin(a, b) == IF FracLE(a, b) THEN a ELSE b

\* the four constraints p * t <= q of the rectangle r for the segment p0 -> p1
ClipConstraints(p0, p1, r) ==
    <<[p |-> p0.x - p1.x, q |-> p0.x - r.left],
      [p |-> p1.x - p0.x, q |-> r.right - p0.x],
      [p |-> p0.y - p1.y, q |-> p0.y - r.top],
      [p |-> p1.y - p0.y, q |-> r.bottom - p0.y]>>

RECURSIVE ClipEnter(_, _)
\* the largest lower bound on t, from 0 and the constraints with p < 0
ClipEnter(cs, k) ==
    IF k = 0 THEN Frac(0, 1)
    ELSE IF cs[k].p < 0
         THEN FracMax(ClipEnter(cs, k - 1), Frac(cs[k].q, cs[k].p))
         ELSE ClipEnter(cs, k - 1)

RECURSIVE ClipExit(_, _)
\* the smallest upper bound on t, from 1 and the constraints with p > 0
ClipExit(cs, k) ==
    IF k = 0 THEN Frac(1, 1)
    ELSE IF cs[k].p > 0
         THEN FracMin(ClipExit(cs, k - 1), Frac(cs[k].q, cs[k].p))
         ELSE ClipExit(cs, k - 1)

\* the point of the segment p0 -> p1 at parameter t
PointAt(p0, p1, t) ==
    Point(p0.x + ((p1.x - p0.x) * t.n) \div t.d,
          p0.y + ((p1.y - p0.y) * t.n) \div t.d)

\* the scene point where p0 -> p1 crosses the rectangle's edge: the exit point
\* when p0 is inside, the entry point otherwise; NoPoint for a zero-length
\* segment and for a segment that misses the rectangle
segment_boundary_intersection(p0, p1, r) ==
    LET cs == ClipConstraints(p0, p1, r)
        tE == ClipEnter(cs, 4)
        tX == ClipExit(cs, 4)
    IN  IF p0 = p1 THEN NoPoint
        ELSE IF \E k \in 1..4 : cs[k].p = 0 /\ cs[k].q < 0 THEN NoPoint
        ELSE IF ~FracLE(tE, tX) THEN NoPoint
        ELSE IF tE.n = 0 THEN PointAt(p0, p1, tX)
        ELSE PointAt(p0, p1, tE)

\* the intersection in the target page's local coordinates, NoPoint when none
find_page_boundary_intersection(p0, p1, r, p) ==
    LET s == segment_boundary_intersection(p0, p1, r)
    IN  IF s = NoPoint THEN NoPoint ELSE scene_to_page_local_position(s, p)

---------------------------------------------------------------------------
(* BrushStrokeManager._create_page_path *)

\* mutant: the rectangle test looks at y only
point_on_page_any_x(pt, r) ==
    r.top <= pt.y /\ pt.y <= r.bottom

\* point_on_page: the rectangle test is closed on all four sides
point_on_page(pt, r) ==
    /\ r.left <= pt.x /\ pt.x <= r.right
    /\ r.top <= pt.y /\ pt.y <= r.bottom

\* mutant: the element's own MoveTo type is not looked at, so a MoveTo inside
\* the page continues the open subpath with a line
create_page_path_step_no_tag(path_elements, p, i, st) ==
    LET r     == page_bounds(p)
        e     == path_elements[i]
        pt    == PointOf(e)
        prev  == PointOf(path_elements[i - 1])
        local == scene_to_page_local_position(pt, p)
        ip    == find_page_boundary_intersection(prev, pt, r, p)
    IN  IF point_on_page(pt, r)
        THEN [path    |-> IF ~st.started
                          THEN moveTo(st.path, local)
                          ELSE lineTo(st.path, local),
              valid   |-> TRUE,
              started |-> TRUE]
        ELSE IF st.started
        THEN [path    |-> IF i > 1 /\ point_on_page(prev, r) /\ ip # NoPoint
                          THEN lineTo(st.path, ip)
                          ELSE st.path,
              valid   |-> st.valid,
              started |-> FALSE]
        ELSE IF i > 1 /\ ~point_on_page(prev, r) /\ ip # NoPoint
        THEN [path    |-> moveTo(st.path, ip),
              valid   |-> TRUE,
              started |-> TRUE]
        ELSE st

\* mutant: leaving the page does not end the subpath
create_page_path_step_no_close(path_elements, p, i, st) ==
    LET r     == page_bounds(p)
        e     == path_elements[i]
        pt    == PointOf(e)
        prev  == PointOf(path_elements[i - 1])
        local == scene_to_page_local_position(pt, p)
        ip    == find_page_boundary_intersection(prev, pt, r, p)
    IN  IF point_on_page(pt, r)
        THEN [path    |-> IF e.type = MoveToElement \/ ~st.started
                          THEN moveTo(st.path, local)
                          ELSE lineTo(st.path, local),
              valid   |-> TRUE,
              started |-> TRUE]
        ELSE IF st.started
        THEN [path    |-> IF i > 1 /\ point_on_page(prev, r) /\ ip # NoPoint
                          THEN lineTo(st.path, ip)
                          ELSE st.path,
              valid   |-> st.valid,
              started |-> TRUE]
        ELSE IF i > 1 /\ ~point_on_page(prev, r) /\ ip # NoPoint
        THEN [path    |-> moveTo(st.path, ip),
              valid   |-> TRUE,
              started |-> TRUE]
        ELSE st

\* one iteration of the loop over path_elements; st holds page_path,
\* has_valid_elements and current_subpath_started
create_page_path_step(path_elements, p, i, st) ==
    LET r     == page_bounds(p)
        e     == path_elements[i]
        pt    == PointOf(e)
        prev  == PointOf(path_elements[i - 1])
        local == scene_to_page_local_position(pt, p)
        ip    == find_page_boundary_intersection(prev, pt, r, p)
    IN  IF point_on_page(pt, r)
        THEN [path    |-> IF e.type = MoveToElement \/ ~st.started
                          THEN moveTo(st.path, local)
                          ELSE lineTo(st.path, local),
              valid   |-> TRUE,
              started |-> TRUE]
        ELSE IF st.started
        THEN [path    |-> IF i > 1 /\ point_on_page(prev, r) /\ ip # NoPoint
                          THEN lineTo(st.path, ip)
                          ELSE st.path,
              valid   |-> st.valid,
              started |-> FALSE]
        ELSE IF i > 1 /\ ~point_on_page(prev, r) /\ ip # NoPoint
        THEN [path    |-> moveTo(st.path, ip),
              valid   |-> TRUE,
              started |-> TRUE]
        ELSE st

RECURSIVE create_page_path_loop(_, _, _)
create_page_path_loop(path_elements, p, i) ==
    IF i = 0
    THEN [path |-> <<>>, valid |-> FALSE, started |-> FALSE]
    ELSE create_page_path_step(path_elements, p, i,
                               create_page_path_loop(path_elements, p, i - 1))

\* the result: [none |-> TRUE] for None, else [none |-> FALSE, path |-> page_path]
create_page_path(path_elements, target_page_index) ==
    IF ~(0 <= target_page_index /\ target_page_index < Len(image_positions))
    THEN [none |-> TRUE, path |-> <<>>]
    ELSE LET st == create_page_path_loop(path_elements, target_page_index,
                                         Len(path_elements))
         IN  IF st.valid
             THEN [none |-> FALSE, path |-> st.path]
             ELSE [none |-> TRUE, path |-> <<>>]

---------------------------------------------------------------------------
(* BrushStrokeManager._process_single_brush_stroke *)

\* mutant: the index -1 of a vertex outside every page counts from the end
pages_touched_wrapped(path) ==
    {q \in Pages : \E i \in 1..Len(path) :
        LET page_index == get_page_at_position(path[i].y)
        IN  (IF page_index < 0 THEN NumPages + page_index ELSE page_index) = q}

\* pages_touched: the valid pages get_page_at_position gives for the vertices
pages_touched(path) ==
    {q \in Pages : \E i \in 1..Len(path) : get_page_at_position(path[i].y) = q}

StrokeData(path, pen, brush, width) ==
    [path |-> path, pen |-> pen, brush |-> brush, width |-> width]

\* mutant: a page path is appended whenever it is not None
process_page_keep_empty(stroke, by_page, q) ==
    LET pp == create_page_path(stroke.path, q)
    IN  IF ~pp.none
        THEN Append(by_page[q],
                    StrokeData(pp.path, stroke.pen, stroke.brush, stroke.width))
        ELSE by_page[q]

\* the append to scene_items_by_page[page_index]['brush_strokes'], made only
\* for a page whose path is neither None nor empty
process_page(stroke, by_page, q) ==
    LET pp == create_page_path(stroke.path, q)
    IN  IF ~pp.none /\ ~isEmpty(pp.path)
        THEN Append(by_page[q],
                    StrokeData(pp.path, stroke.pen, stroke.brush, stroke.width))
        ELSE by_page[q]

\* every touched page is handled on its own, so the order in which the set
\* pages_touched is iterated does not show in the result
process_single_brush_stroke(stroke, by_page) ==
    [q \in Pages |->
        IF q \in pages_touched(stroke.path)
        THEN process_page(stroke, by_page, q)
        ELSE by_page[q]]

---------------------------------------------------------------------------
(* Colours, as the names QColor.name(QColor.HexArgb) gives *)

MaskColor == "#80ff0000"

\* the colour of QBrush(): an item added without a brush reports it
NoBrushColor == "#ff000000"

PenColor == "#ff000000"

PenWidth == 4

---------------------------------------------------------------------------
(* The live canvas *)

RECURSIVE Reverse(_)
Reverse(s) == IF Len(s) = 0 THEN <<>> ELSE Append(Reverse(Tail(s)), Head(s))

\* self._scene.items(): the path items, topmost (newest) first
scene_items(sc) == Reverse(sc)

RECURSIVE SeqMin(_, _)
SeqMin(xs, k) ==
    IF k = 1 THEN xs[1]
    ELSE LET m == SeqMin(xs, k - 1) IN IF xs[k] < m THEN xs[k] ELSE m

RECURSIVE SeqMax(_, _)
SeqMax(xs, k) ==
    IF k = 1 THEN xs[1]
    ELSE LET m == SeqMax(xs, k - 1) IN IF xs[k] > m THEN xs[k] ELSE m

\* item.mapRectToScene(item.boundingRect()): top and bottom of the path's
\* points, widened by half the pen width; the null rectangle for a path
\* without elements
item_top(item) ==
    IF Len(item.path) = 0 THEN 0
    ELSE SeqMin([i \in 1..Len(item.path) |-> item.path[i].y], Len(item.path))
             - item.width \div 2

item_bottom(item) ==
    IF Len(item.path) = 0 THEN 0
    ELSE SeqMax([i \in 1..Len(item.path) |-> item.path[i].y], Len(item.path))
             + item.width \div 2

---------------------------------------------------------------------------
(* coordinate_converter: paths and strokes *)

\* convert_path_to_scene_coordinates: every point mapped to scene coordinates
convert_path_to_scene_coordinates(path, p) ==
    [i \in 1..Len(path) |->
        Elem(path[i].type, page_local_to_scene_position(PointOf(path[i]), p))]

NoStroke == [none |-> TRUE]

\* convert_stroke_to_page_local: the clipper restricted to one page; NoStroke
\* when the page gets no fragment
convert_stroke_to_page_local(item, p) ==
    LET pp == create_page_path(item.path, p)
    IN  IF pp.none \/ isEmpty(pp.path)
        THEN NoStroke
        ELSE StrokeData(pp.path, item.pen, item.brush, item.width)

---------------------------------------------------------------------------
(* BrushStrokeManager.load_brush_strokes *)

\* mutant: the stored brush is given to addPath as it is
loaded_item_stored_brush(stroke_data, p) ==
    StrokeData(convert_path_to_scene_coordinates(stroke_data.path, p),
               stroke_data.pen, stroke_data.brush, stroke_data.width)

\* the item self._scene.addPath makes for one stored stroke: the brush is
\* kept only when it is the mask colour
loaded_item(stroke_data, p) ==
    StrokeData(convert_path_to_scene_coordinates(stroke_data.path, p),
               stroke_data.pen,
               IF stroke_data.brush = MaskColor THEN MaskColor ELSE NoBrushColor,
               stroke_data.width)

\* hasattr(self.viewer, 'drawing_manager'): the viewer of the webtoon canvas
\* has its drawing manager
has_drawing_manager == TRUE

\* the strokes the loop reaches: stroke_data['path'] raises KeyError for a
\* stroke without path, which ends the loop and the call
loadable_prefix(brush_strokes) ==
    IF \E i \in 1..Len(brush_strokes) : "path" \notin DOMAIN brush_strokes[i]
    THEN SubSeq(brush_strokes, 1,
                (CHOOSE i \in 1..Len(brush_strokes) :
                    /\ "path" \notin DOMAIN brush_strokes[i]
                    /\ \A j \in 1..(i - 1) : "path" \in DOMAIN brush_strokes[j]) - 1)
    ELSE brush_strokes

\* mutant: the paths are added in page-local coordinates
load_brush_strokes_scene_local(sc, brush_strokes, p) ==
    IF Len(brush_strokes) > 0 /\ has_drawing_manager
    THEN sc \o [i \in 1..Len(loadable_prefix(brush_strokes)) |->
                   [loaded_item(brush_strokes[i], p) EXCEPT
                       !.path = brush_strokes[i].path]]
    ELSE sc

load_brush_strokes_scene(sc, brush_strokes, p) ==
    IF Len(brush_strokes) > 0 /\ has_drawing_manager
    THEN sc \o [i \in 1..Len(loadable_prefix(brush_strokes)) |->
                   loaded_item(brush_strokes[i], p)]
    ELSE sc

---------------------------------------------------------------------------
(* BrushStrokeManager.unload_brush_strokes *)

\* the test of line 68 and the conversion: the item is stored and removed
\* when it meets the band and the conversion gives a stroke
unload_takes(item, p, band_top, band_bottom) ==
    /\ ~(item_bottom(item) < band_top \/ item_top(item) > band_bottom)
    /\ convert_stroke_to_page_local(item, p) # NoStroke

RECURSIVE unload_data(_, _, _, _)
\* brush_strokes_data, in the order of self._scene.items()
unload_data(items, p, band_top, band_bottom) ==
    IF Len(items) = 0 THEN <<>>
    ELSE IF unload_takes(Head(items), p, band_top, band_bottom)
         THEN <<convert_stroke_to_page_local(Head(items), p)>>
                  \o unload_data(Tail(items), p, band_top, band_bottom)
         ELSE unload_data(Tail(items), p, band_top, band_bottom)

\* mutant: the stored list is extended instead of assigned
unload_brush_strokes_states_extend(states, sc, p, band_top, band_bottom) ==
    [states EXCEPT ![p] = @ \o unload_data(scene_items(sc), p, band_top, band_bottom)]

\* the stored list is assigned, not extended
unload_brush_strokes_states(states, sc, p, band_top, band_bottom) ==
    [states EXCEPT ![p] = unload_data(scene_items(sc), p, band_top, band_bottom)]

RECURSIVE unload_brush_strokes_scene(_, _, _, _)
\* the canvas without the items of brush_strokes_to_remove
unload_brush_strokes_scene(sc, p, band_top, band_bottom) ==
    IF Len(sc) = 0 THEN <<>>
    ELSE IF unload_takes(Head(sc), p, band_top, band_bottom)
         THEN unload_brush_strokes_scene(Tail(sc), p, band_top, band_bottom)
         ELSE <<Head(sc)>>
                  \o unload_brush_strokes_scene(Tail(sc), p, band_top, band_bottom)

---------------------------------------------------------------------------
(* BrushStrokeManager.save_brush_strokes_to_states *)

\* stroke_data of one item
item_stroke_data(item) ==
    StrokeData(item.path, item.pen, item.brush, item.width)

RECURSIVE save_loop(_, _)
save_loop(items, by_page) ==
    IF Len(items) = 0 THEN by_page
    ELSE save_loop(Tail(items),
                   process_single_brush_stroke(item_stroke_data(Head(items)),
                                               by_page))

save_brush_strokes_to_states(sc, by_page) ==
    save_loop(scene_items(sc), by_page)

---------------------------------------------------------------------------
(* BrushStrokeManager.redistribute_existing_brush_strokes *)

\* 'path' in stroke_data
has_path(stroke_data) == "path" \in DOMAIN stroke_data

\* hasattr(path, 'boundingRect'): the stored path is a QPainterPath; a record
\* with the field raw holds something else under 'path'
has_bounding_rect(stroke_data) == "raw" \notin DOMAIN stroke_data

\* mutant: every element is added with lineTo
RECURSIVE redistribute_scene_path_lines_only(_, _, _)
redistribute_scene_path_lines_only(path, original_page_idx, i) ==
    IF i = 0 THEN <<>>
    ELSE lineTo(redistribute_scene_path_lines_only(path, original_page_idx, i - 1),
                page_local_to_scene_position(PointOf(path[i]), original_page_idx))

RECURSIVE redistribute_scene_path(_, _, _)
\* scene_path after the first i elements of the stored path: each point is
\* mapped through the recorded page and added with moveTo or lineTo
redistribute_scene_path(path, original_page_idx, i) ==
    IF i = 0 THEN <<>>
    ELSE LET acc == redistribute_scene_path(path, original_page_idx, i - 1)
             scene_point == page_local_to_scene_position(PointOf(path[i]),
                                                         original_page_idx)
         IN  IF path[i].type = MoveToElement THEN moveTo(acc, scene_point)
             ELSE IF path[i].type = LineToElement THEN lineTo(acc, scene_point)
             ELSE acc

\* the stroke stays on its original page as it is
keep_on_original_page(entry, by_page) ==
    [by_page EXCEPT ![entry.page] = Append(@, entry.data)]

\* mutant: a stroke without path is dropped
redistribute_entry_drop(entry, by_page) ==
    IF ~has_path(entry.data)
    THEN by_page
    ELSE IF ~has_bounding_rect(entry.data)
    THEN keep_on_original_page(entry, by_page)
    ELSE process_single_brush_stroke(
             [entry.data EXCEPT !.path =
                 redistribute_scene_path(entry.data.path, entry.page,
                                         Len(entry.data.path))],
             by_page)

\* the body of the loop for one (stroke_data, original_page_idx) that was not
\* processed before.  Every page has its entry in scene_items_by_page and
\* every recorded page is a page, so nothing in the try block raises.
redistribute_entry(entry, by_page) ==
    IF ~has_path(entry.data)
    THEN keep_on_original_page(entry, by_page)
    ELSE IF ~has_bounding_rect(entry.data)
    THEN keep_on_original_page(entry, by_page)
    ELSE process_single_brush_stroke(
             [entry.data EXCEPT !.path =
                 redistribute_scene_path(entry.data.path, entry.page,
                                         Len(entry.data.path))],
             by_page)

RECURSIVE redistribute_loop_every_entry(_, _, _, _)
\* mutant: processed_strokes is not looked at
redistribute_loop_every_entry(all_existing, i, processed_strokes, by_page) ==
    IF i > Len(all_existing) THEN by_page
    ELSE redistribute_loop_every_entry(all_existing, i + 1,
                                       processed_strokes \cup {all_existing[i].id},
                                       redistribute_entry(all_existing[i], by_page))

RECURSIVE redistribute_loop(_, _, _, _)
\* the loop from entry i on; processed_strokes holds the ids seen
redistribute_loop(all_existing, i, processed_strokes, by_page) ==
    IF i > Len(all_existing) THEN by_page
    ELSE IF all_existing[i].id \in processed_strokes
    THEN redistribute_loop(all_existing, i + 1, processed_strokes, by_page)
    ELSE redistribute_loop(all_existing, i + 1,
                           processed_strokes \cup {all_existing[i].id},
                           redistribute_entry(all_existing[i], by_page))

redistribute_existing_brush_strokes(all_existing, by_page) ==
    redistribute_loop(all_existing, 1, {}, by_page)

---------------------------------------------------------------------------
(* redistribute_existing_brush_strokes when a lookup in scene_items_by_page *)
(* raises: the caller's dictionary has no entry for some page              *)

\* the value of by_page for a page without an entry: reading it raises KeyError
NoList == <<[missing |-> TRUE]>>

\* the orders in which the set pages_touched can be iterated
PageOrders ==
    {o \in [1..NumPages -> Pages] : \A i, j \in 1..NumPages : o[i] = o[j] => i = j}

RECURSIVE process_pages_raising(_, _, _, _)
\* the loop of lines 122-134 from the k-th page of the order on.  The append
\* of line 134 changes the page's list in place; the lookup raises for a page
\* without entry, and the appends made before stay.
process_pages_raising(stroke, by_page, order, k) ==
    IF k > Len(order) THEN [raised |-> FALSE, by_page |-> by_page]
    ELSE LET q  == order[k]
             pp == create_page_path(stroke.path, q)
         IN  IF q \notin pages_touched(stroke.path) \/ pp.none \/ isEmpty(pp.path)
             THEN process_pages_raising(stroke, by_page, order, k + 1)
             ELSE IF by_page[q] = NoList
             THEN [raised |-> TRUE, by_page |-> by_page]
             ELSE process_pages_raising(
                      stroke,
                      [by_page EXCEPT ![q] =
                          Append(@, StrokeData(pp.path, stroke.pen, stroke.brush,
                                               stroke.width))],
                      order, k + 1)

process_single_brush_stroke_raising(stroke, by_page, order) ==
    process_pages_raising(stroke, by_page, order, 1)

\* the append of lines 229, 236 and 261: none of them is guarded, so the
\* KeyError of a missing original page leaves the function
keep_or_raise(entry, by_page) ==
    IF by_page[entry.page] = NoList
    THEN [raised |-> TRUE, by_page |-> by_page]
    ELSE [raised |-> FALSE, by_page |-> keep_on_original_page(entry, by_page)]

\* the stroke of line 253-254: the stored stroke with its path in scene
\* coordinates
scene_stroke_data(entry) ==
    [entry.data EXCEPT !.path =
        redistribute_scene_path(entry.data.path, entry.page, Len(entry.data.path))]

\* the body of the loop with its try and except: an error raised while the
\* stroke is distributed is caught, and the stroke is appended to its
\* original page
redistribute_entry_try(entry, by_page, order) ==
    IF ~has_path(entry.data) \/ ~has_bounding_rect(entry.data)
    THEN keep_or_raise(entry, by_page)
    ELSE LET r == process_single_brush_stroke_raising(scene_stroke_data(entry),
                                                      by_page, order)
         IN  IF r.raised THEN keep_or_raise(entry, r.by_page) ELSE r

RECURSIVE redistribute_upto(_, _, _, _)
\* the loop over the first n entries; an entry whose id was met before is
\* skipped, and an error that leaves the function ends the loop
redistribute_upto(all_existing, n, by_page, order) ==
    IF n = 0 THEN [raised |-> FALSE, by_page |-> by_page]
    ELSE LET r == redistribute_upto(all_existing, n - 1, by_page, order)
         IN  IF r.raised THEN r
             ELSE IF \E j \in 1..(n - 1) : all_existing[j].id = all_existing[n].id
             THEN r
             ELSE redistribute_entry_try(all_existing[n], r.by_page, order)

---------------------------------------------------------------------------
(* QPainterPath.boundingRect and BrushStrokeManager.is_duplicate_brush_stroke *)

Abs(n) == IF n < 0 THEN -n ELSE n

\* path.boundingRect(): the rectangle of the points of all elements, the
\* null rectangle for a path without elements
boundingRect(path) ==
    IF Len(path) = 0 THEN [x |-> 0, y |-> 0, width |-> 0, height |-> 0]
    ELSE LET xs == [i \in 1..Len(path) |-> path[i].x]
             ys == [i \in 1..Len(path) |-> path[i].y]
         IN  [x      |-> SeqMin(xs, Len(xs)),
              y      |-> SeqMin(ys, Len(ys)),
              width  |-> SeqMax(xs, Len(xs)) - SeqMin(xs, Len(xs)),
              height |-> SeqMax(ys, Len(ys)) - SeqMin(ys, Len(ys))]

\* the test of lines 285-288
bounds_within_margin(new_bounds, ex_bounds, margin) ==
    /\ Abs(new_bounds.x - ex_bounds.x) <= margin
    /\ Abs(new_bounds.y - ex_bounds.y) <= margin
    /\ Abs(new_bounds.width - ex_bounds.width) <= margin
    /\ Abs(new_bounds.height - ex_bounds.height) <= margin

\* mutant: the heights are not compared
is_duplicate_brush_stroke_no_height(new_stroke, existing_strokes, margin) ==
    IF ~has_path(new_stroke) THEN FALSE
    ELSE IF ~has_bounding_rect(new_stroke) THEN FALSE
    ELSE \E i \in 1..Len(existing_strokes) :
            /\ has_path(existing_strokes[i])
            /\ has_bounding_rect(existing_strokes[i])
            /\ LET new_bounds == boundingRect(new_stroke.path)
                   ex_bounds  == boundingRect(existing_strokes[i].path)
               IN  /\ Abs(new_bounds.x - ex_bounds.x) <= margin
                   /\ Abs(new_bounds.y - ex_bounds.y) <= margin
                   /\ Abs(new_bounds.width - ex_bounds.width) <= margin

\* the loop returns True at the first existing stroke within the margin;
\* strokes without path or without bounding rectangle are passed over
is_duplicate_brush_stroke(new_stroke, existing_strokes, margin) ==
    IF ~has_path(new_stroke) THEN FALSE
    ELSE IF ~has_bounding_rect(new_stroke) THEN FALSE
    ELSE \E i \in 1..Len(existing_strokes) :
            /\ has_path(existing_strokes[i])
            /\ has_bounding_rect(existing_strokes[i])
            /\ bounds_within_margin(boundingRect(new_stroke.path),
                                    boundingRect(existing_strokes[i].path),
                                    margin)

\* the default of the parameter margin
margin_default == 5

---------------------------------------------------------------------------
(* BrushStrokeManager.merge_clipped_brush_strokes *)

\* bounds.center(); the extents of the stored paths are even in this model,
\* so the centre has integer coordinates
center(bounds) ==
    Point(bounds.x + bounds.width \div 2, bounds.y + bounds.height \div 2)

\* the record appended to all_strokes for one stored stroke
collected_stroke(stroke_data, page_idx) ==
    [data         |-> stroke_data,
     page_idx     |-> page_idx,
     scene_bounds |-> boundingRect(stroke_data.path),
     scene_center |-> page_local_to_scene_position(
                          center(boundingRect(stroke_data.path)), page_idx)]

RECURSIVE collect_page_strokes(_, _)
\* the inner loop of lines 305-322 over the strokes of one page
collect_page_strokes(strokes, page_idx) ==
    IF Len(strokes) = 0 THEN <<>>
    ELSE IF has_path(Head(strokes)) /\ has_bounding_rect(Head(strokes))
    THEN <<collected_stroke(Head(strokes), page_idx)>>
             \o collect_page_strokes(Tail(strokes), page_idx)
    ELSE collect_page_strokes(Tail(strokes), page_idx)

RECURSIVE collect_all_strokes(_, _)
\* all_strokes: the strokes of the pages page_idx, page_idx + 1, ...
collect_all_strokes(states, page_idx) ==
    IF page_idx >= NumPages THEN <<>>
    ELSE collect_page_strokes(states[page_idx], page_idx)
             \o collect_all_strokes(states, page_idx + 1)

\* tolerance of line 361
tolerance == 20

\* the bound on the horizontal distance of line 371
horizontal_tolerance == 50

\* mutant: strokes of any two pages can be merged
are_brush_strokes_mergeable_any_page(stroke1, stroke2) ==
    IF Abs(stroke1.scene_center.y - stroke2.scene_center.y) > tolerance
    THEN FALSE
    ELSE IF Abs(stroke1.scene_center.x - stroke2.scene_center.x)
                > horizontal_tolerance
    THEN FALSE
    ELSE /\ stroke1.data.pen = stroke2.data.pen
         /\ stroke1.data.width = stroke2.data.width
         /\ stroke1.data.brush = stroke2.data.brush

\* _are_brush_strokes_mergeable; every collected stroke has pen, width and
\* brush, so data.get(attr) is the field
are_brush_strokes_mergeable(stroke1, stroke2) ==
    IF Abs(stroke1.page_idx - stroke2.page_idx) > 1 THEN FALSE
    ELSE IF Abs(stroke1.scene_center.y - stroke2.scene_center.y) > tolerance
    THEN FALSE
    ELSE IF Abs(stroke1.scene_center.x - stroke2.scene_center.x)
                > horizontal_tolerance
    THEN FALSE
    ELSE /\ stroke1.data.pen = stroke2.data.pen
         /\ stroke1.data.width = stroke2.data.width
         /\ stroke1.data.brush = stroke2.data.brush

RECURSIVE group_of_all(_, _, _, _)
\* mutant: every stroke not used yet joins the group
group_of_all(all_strokes, i, j, acc) ==
    IF j > Len(all_strokes) THEN acc
    ELSE IF j \in acc.used \/ i = j
    THEN group_of_all(all_strokes, i, j + 1, acc)
    ELSE group_of_all(all_strokes, i, j + 1,
                      [group |-> Append(acc.group, j), used |-> acc.used \cup {j}])

RECURSIVE group_of_reuse(_, _, _, _)
\* mutant: a stroke that is in a group already can join another
group_of_reuse(all_strokes, i, j, acc) ==
    IF j > Len(all_strokes) THEN acc
    ELSE IF i = j
    THEN group_of_reuse(all_strokes, i, j + 1, acc)
    ELSE IF are_brush_strokes_mergeable(all_strokes[i], all_strokes[j])
    THEN group_of_reuse(all_strokes, i, j + 1,
                        [group |-> Append(acc.group, j), used |-> acc.used \cup {j}])
    ELSE group_of_reuse(all_strokes, i, j + 1, acc)

RECURSIVE group_of(_, _, _, _)
\* the inner loop of lines 338-344 from j on; acc holds group (as indices
\* into all_strokes) and used_strokes
group_of(all_strokes, i, j, acc) ==
    IF j > Len(all_strokes) THEN acc
    ELSE IF j \in acc.used \/ i = j
    THEN group_of(all_strokes, i, j + 1, acc)
    ELSE IF are_brush_strokes_mergeable(all_strokes[i], all_strokes[j])
    THEN group_of(all_strokes, i, j + 1,
                  [group |-> Append(acc.group, j), used |-> acc.used \cup {j}])
    ELSE group_of(all_strokes, i, j + 1, acc)

RECURSIVE merged_groups(_, _, _, _)
\* the outer loop of lines 331-347 from i on
merged_groups(all_strokes, i, used_strokes, groups) ==
    IF i > Len(all_strokes) THEN groups
    ELSE IF i \in used_strokes
    THEN merged_groups(all_strokes, i + 1, used_strokes, groups)
    ELSE LET r == group_of(all_strokes, i, 1,
                           [group |-> <<i>>, used |-> used_strokes \cup {i}])
         IN  merged_groups(all_strokes, i + 1, r.used,
                           IF Len(r.group) > 1
                           THEN Append(groups, r.group)
                           ELSE groups)

RECURSIVE combined_path(_, _)
\* combined_path after the first k items of the group
combined_path(group, k) ==
    IF k = 0 THEN <<>>
    ELSE addPath(combined_path(group, k - 1), group[k].data.path)

RECURSIVE sum_center_y(_, _)
sum_center_y(group, k) ==
    IF k = 0 THEN 0 ELSE sum_center_y(group, k - 1) + group[k].scene_center.y

\* layout_manager.get_page_at_position(total / count): the page whose
\* half-open band holds the quotient, -1 when no page does
get_page_at_mean(total, count) ==
    IF \E p \in Pages : /\ page_y(p) * count <= total
                        /\ total < (page_y(p) + page_height(p)) * count
    THEN CHOOSE p \in Pages : /\ page_y(p) * count <= total
                              /\ total < (page_y(p) + page_height(p)) * count
    ELSE -1

\* image_file_paths[target_page]: a negative index counts from the end
file_path_index(target_page) ==
    IF target_page < 0 THEN NumPages + target_page ELSE target_page

\* strokes.remove(data) under "if data in strokes": the first equal stroke
\* leaves the list
remove_stroke(strokes, data) ==
    IF \E i \in 1..Len(strokes) : strokes[i] = data
    THEN LET k == CHOOSE i \in 1..Len(strokes) :
                      /\ strokes[i] = data
                      /\ \A j \in 1..(i - 1) : strokes[j] # data
         IN  SubSeq(strokes, 1, k - 1) \o SubSeq(strokes, k + 1, Len(strokes))
    ELSE strokes

RECURSIVE remove_group(_, _, _)
\* the loop of lines 418-425 over the first k items of the group
remove_group(states, group, k) ==
    IF k = 0 THEN states
    ELSE LET st == remove_group(states, group, k - 1)
         IN  [st EXCEPT ![group[k].page_idx] = remove_stroke(@, group[k].data)]

\* mutant: the merged stroke goes to the page of the first item
merge_brush_stroke_group_first_page(states, group) ==
    IF Len(group) <= 1 THEN states
    ELSE LET base_data == [group[1].data EXCEPT
                              !.path = combined_path(group, Len(group))]
         IN  [remove_group(states, group, Len(group)) EXCEPT
                 ![group[1].page_idx] = Append(@, base_data)]

\* _merge_brush_stroke_group; the paths of the collected strokes are
\* QPainterPaths, which have addPath
merge_brush_stroke_group(states, group) ==
    IF Len(group) <= 1 THEN states
    ELSE LET target_page == get_page_at_mean(sum_center_y(group, Len(group)),
                                             Len(group))
             base_data   == [group[1].data EXCEPT
                                !.path = combined_path(group, Len(group))]
         IN  [remove_group(states, group, Len(group)) EXCEPT
                 ![file_path_index(target_page)] = Append(@, base_data)]

\* the items of a group given by its indices
group_items(all_strokes, group) ==
    [k \in 1..Len(group) |-> all_strokes[group[k]]]

RECURSIVE merge_groups(_, _, _, _)
\* the loop of lines 351-352 over the first n groups
merge_groups(states, all_strokes, groups, n) ==
    IF n = 0 THEN states
    ELSE merge_brush_stroke_group(
             merge_groups(states, all_strokes, groups, n - 1),
             group_items(all_strokes, groups[n]))

\* merge_clipped_brush_strokes; main_controller is set
merge_clipped_brush_strokes(states) ==
    LET all_strokes == collect_all_strokes(states, 0)
        groups      == merged_groups(all_strokes, 1, {}, <<>>)
    IN  IF Len(all_strokes) < 2 THEN states
        ELSE merge_groups(states, all_strokes, groups, Len(groups))

---------------------------------------------------------------------------
(* The strokes a user can draw *)

GridXs == {c * Unit : c \in 0 .. (GridCols - 1)}

\* the rows run from one step below the top of the first page to the bottom
\* edge of the last page, which belongs to no page
GridYs ==
    {k * Unit : k \in 1 .. ((page_y(NumPages - 1) + page_height(NumPages - 1)) \div Unit)}

GridElems ==
    [type : {MoveToElement, LineToElement}, x : GridXs, y : GridYs]

\* what QPainterPath can hold: no element at all, or elements that start
\* with a MoveTo, where no MoveTo follows a MoveTo and no LineTo repeats the
\* point before it
IsQPath(s) ==
    /\ Len(s) >= 1 => s[1].type = MoveToElement
    /\ \A i \in 2..Len(s) :
          IF s[i].type = MoveToElement
          THEN s[i - 1].type # MoveToElement
          ELSE PointOf(s[i]) # PointOf(s[i - 1])

Paths == {s \in UNION {[1..n -> GridElems] : n \in 0..MaxLen} : IsQPath(s)}

DrawnItems ==
    {StrokeData(s, PenColor, b, PenWidth) : s \in Paths, b \in {MaskColor, NoBrushColor}}

EmptyStates == [q \in Pages |-> <<>>]

---------------------------------------------------------------------------
(* The state machine *)

Before(op, page) ==
    [op |-> op, page |-> page, scene |-> scene, states |-> image_states]

Init ==
    /\ orig \in DrawnItems
    /\ scene = <<orig>>
    /\ image_states = EmptyStates
    /\ resident = Pages
    /\ batch = <<>>
    /\ flushes = 0
    /\ ops = 0
    /\ done = [load |-> {}, unload |-> {}]
    /\ last = [op |-> "draw", page |-> -1, scene |-> <<>>, states |-> EmptyStates]

\* the scheduler brings page p into the resident window
Load(p) ==
    /\ ops < MaxOps
    /\ ops' = ops + 1
    /\ p \notin resident
    /\ scene' = load_brush_strokes_scene(scene, image_states[p], p)
    /\ resident' = resident \cup {p}
    /\ done' = [done EXCEPT !.load = @ \cup {p}]
    /\ last' = Before("load", p)
    /\ UNCHANGED <<image_states, orig, batch, flushes>>

\* the scheduler drops page p from the resident window
Unload(p) ==
    /\ ops < MaxOps
    /\ ops' = ops + 1
    /\ p \in resident
    /\ image_states' = unload_brush_strokes_states(image_states, scene, p,
                           page_y(p), page_y(p) + page_height(p))
    /\ scene' = unload_brush_strokes_scene(scene, p,
                           page_y(p), page_y(p) + page_height(p))
    /\ resident' = resident \ {p}
    /\ done' = [done EXCEPT !.unload = @ \cup {p}]
    /\ last' = Before("unload", p)
    /\ UNCHANGED <<orig, batch, flushes>>

\* leaving webtoon mode: every live stroke is saved to the page states
Flush ==
    /\ ops < MaxOps
    /\ ops' = ops + 1
    /\ flushes < MaxFlush
    /\ image_states' = save_brush_strokes_to_states(scene, image_states)
    /\ flushes' = flushes + 1
    /\ last' = Before("flush", -1)
    /\ UNCHANGED <<scene, resident, orig, batch, done>>

\* the mode is left after the strokes were saved: the canvas is cleared and
\* no page stays resident
Clear ==
    /\ flushes > 0
    /\ last.op = "flush"
    /\ scene' = <<>>
    /\ resident' = {}
    /\ last' = Before("clear", -1)
    /\ UNCHANGED <<image_states, orig, batch, flushes, ops, done>>

Next ==
    \/ \E p \in Pages : Load(p)
    \/ \E p \in Pages : Unload(p)
    \/ Flush
    \/ Clear

Spec == Init /\ [][Next]_vars

---------------------------------------------------------------------------
(* Redistribution of stored strokes after the page geometry changed *)

\* stored paths in page-local coordinates, in the column every page covers;
\* with y = 3 * Unit a path reaches below its page
BatchPoints == {Point(Unit, 0), Point(Unit, Unit), Point(Unit, 3 * Unit)}

BatchPaths ==
    {<<Elem(MoveToElement, a), Elem(LineToElement, b)>> :
         a \in BatchPoints, b \in BatchPoints} \ 
    {<<Elem(MoveToElement, a), Elem(LineToElement, a)>> : a \in BatchPoints}

\* a stored stroke without 'path', and one whose 'path' is no QPainterPath
NoPathData == [pen |-> PenColor, brush |-> MaskColor, width |-> PenWidth]

RawPathData ==
    [path |-> <<>>, raw |-> TRUE, pen |-> PenColor, brush |-> MaskColor,
     width |-> PenWidth]

BatchData ==
    {StrokeData(s, PenColor, NoBrushColor, PenWidth) : s \in BatchPaths}
        \cup {NoPathData, RawPathData}

\* entry i is a new object (id i) or an object met earlier in the list, which
\* then has the same data; the recorded page is free
IsBatch(b) ==
    \A i \in 1..Len(b) :
        /\ b[i].id <= i
        /\ b[i].id < i => b[i].id = b[b[i].id].id /\ b[i].data = b[b[i].id].data

BatchEntries == [id : 1..MaxBatch, data : BatchData, page : Pages]

Batches ==
    {b \in UNION {[1..n -> BatchEntries] : n \in 1..MaxBatch} : IsBatch(b)}

NoItem == StrokeData(<<>>, PenColor, NoBrushColor, PenWidth)

InitRedistribute ==
    /\ batch \in Batches
    /\ orig = NoItem
    /\ scene = <<>>
    /\ image_states = EmptyStates
    /\ resident = {}
    /\ flushes = 0
    /\ ops = 0
    /\ done = [load |-> {}, unload |-> {}]
    /\ last = [op |-> "collect", page |-> -1, scene |-> <<>>, states |-> EmptyStates]

\* the stored strokes are redistributed to fresh page lists
Redistribute ==
    /\ last.op = "collect"
    /\ image_states' = redistribute_existing_brush_strokes(batch, image_states)
    /\ last' = Before("redistribute", -1)
    /\ UNCHANGED <<scene, resident, orig, batch, flushes, ops, done>>

NextRedistribute == Redistribute

SpecRedistribute == InitRedistribute /\ [][NextRedistribute]_vars

---------------------------------------------------------------------------
(* Redistribution into a dictionary that lacks pages *)

\* a stored stroke of page 0 or 1 that reaches into the next page and comes
\* back: the clipper has a fragment of it for two pages
TwoPagePath ==
    <<Elem(MoveToElement, Point(Unit, Unit)),
      Elem(LineToElement, Point(Unit, 3 * Unit)),
      Elem(LineToElement, Point(Unit, 0))>>

PartialData ==
    BatchData \cup {StrokeData(TwoPagePath, PenColor, NoBrushColor, PenWidth)}

PartialBatches ==
    {b \in UNION {[1..n -> [id : 1..(MaxBatch - 1), data : PartialData, page : Pages]] :
                     n \in 1..(MaxBatch - 1)} : IsBatch(b)}

\* scene_items_by_page: a list for some pages, no entry for the others
PartialStates == [Pages -> {<<>>, NoList}]

InitPartial ==
    /\ batch \in PartialBatches
    /\ image_states \in PartialStates
    /\ orig = NoItem
    /\ scene = <<>>
    /\ resident = {}
    /\ flushes = 0
    /\ ops = 0
    /\ done = [load |-> {}, unload |-> {}]
    /\ last = [op |-> "collect", page |-> -1, scene |-> <<>>, states |-> image_states]

\* the call; raised tells whether an error left the function
RedistributePartial ==
    /\ last.op = "collect"
    /\ \E order \in PageOrders :
          LET r == redistribute_upto(batch, Len(batch), image_states, order)
          IN  /\ image_states' = r.by_page
              /\ last' = [op |-> "redistribute", page |-> -1, scene |-> scene,
                          states |-> image_states, order |-> order,
                          raised |-> r.raised]
    /\ UNCHANGED <<scene, resident, orig, batch, flushes, ops, done>>

NextPartial == RedistributePartial

SpecPartial == InitPartial /\ [][NextPartial]_vars

---------------------------------------------------------------------------
(* Stored strokes: loading and merging *)

\* most strokes held by the page lists together at the start
MaxStored == 3

\* a stored path of one line, given by its bounding rectangle
Seg(x, y, w, h) ==
    <<Elem(MoveToElement, Point(x, y)), Elem(LineToElement, Point(x + w, y + h))>>

OtherPenColor == "#ffff0000"

\* an opaque fill that is not the mask colour
OtherBrushColor == "#ff00ff00"

OtherPenWidth == 6

\* the geometries of the stored strokes, each with the page that holds it.
\* Scene centres: (50, 105) on page 0; on page 1 (50, 125), (50, 127),
\* (100, 125), (102, 125), (52, 125), (50, 126); on page 2 a stale stroke with
\* centre (50, 105), which lies in page 0
StoredGeometries ==
    {[page |-> 0, path |-> Seg(40, 100, 20, 10)],
     [page |-> 1, path |-> Seg(10, 0, 20, 10)],
     [page |-> 1, path |-> Seg(10, 2, 20, 10)],
     [page |-> 1, path |-> Seg(60, 0, 20, 10)],
     [page |-> 1, path |-> Seg(62, 0, 20, 10)],
     [page |-> 1, path |-> Seg(10, 0, 24, 10)],
     [page |-> 1, path |-> Seg(10, 0, 20, 12)],
     [page |-> 2, path |-> Seg(40, -140, 20, 10)]}

\* the strokes a page list can hold at the start: every geometry in the plain
\* style, one geometry also with another pen, width or fill, and a stroke
\* without path
StoredCandidates ==
    {[page |-> g.page,
      data |-> StrokeData(g.path, PenColor, NoBrushColor, PenWidth)] :
         g \in StoredGeometries}
    \cup {[page |-> 1, data |-> StrokeData(Seg(10, 0, 20, 10), c[1], c[2], c[3])] :
             c \in {<<OtherPenColor, NoBrushColor, PenWidth>>,
                    <<PenColor, MaskColor, PenWidth>>,
                    <<PenColor, OtherBrushColor, PenWidth>>,
                    <<PenColor, NoBrushColor, OtherPenWidth>>}}
    \cup {[page |-> 1, data |-> NoPathData]}

RECURSIVE stored_states(_, _)
\* the page lists that hold the first k of the given strokes, in their order
stored_states(cands, k) ==
    IF k = 0 THEN EmptyStates
    ELSE [stored_states(cands, k - 1) EXCEPT
             ![cands[k].page] = Append(@, cands[k].data)]

StoredStates ==
    {stored_states(cands, Len(cands)) :
         cands \in UNION {[1..n -> StoredCandidates] : n \in 1..MaxStored}}

InitStorage ==
    /\ image_states \in StoredStates
    /\ orig = NoItem
    /\ scene = <<>>
    /\ resident = {}
    /\ batch = <<>>
    /\ flushes = 0
    /\ ops = 0
    /\ done = [load |-> {}, unload |-> {}]
    /\ last = [op |-> "stored", page |-> -1, scene |-> <<>>, states |-> image_states]

\* the mode is changed and the clipped strokes are merged
Merge ==
    /\ ops < MaxOps
    /\ ops' = ops + 1
    /\ image_states' = merge_clipped_brush_strokes(image_states)
    /\ last' = Before("merge", -1)
    /\ UNCHANGED <<scene, resident, orig, batch, flushes, done>>

NextStorage ==
    \/ \E p \in Pages : Load(p)
    \/ Merge

SpecStorage == InitStorage /\ [][NextStorage]_vars

---------------------------------------------------------------------------
(* is_duplicate_brush_stroke on stored strokes *)

Margins == {0, 2, margin_default}

\* the list without its k-th stroke
others(strokes, k) ==
    SubSeq(strokes, 1, k - 1) \o SubSeq(strokes, k + 1, Len(strokes))

\* stroke k of page p is compared with the strokes of page q, itself left out
IsDuplicate(p, k, q, margin) ==
    /\ last.op = "stored"
    /\ k \in 1..Len(image_states[p])
    /\ last' = [op        |-> "is_duplicate",
                page      |-> p,
                scene     |-> scene,
                states    |-> image_states,
                candidate |-> image_states[p][k],
                existing  |-> IF p = q THEN others(image_states[q], k)
                              ELSE image_states[q],
                margin    |-> margin,
                result    |-> is_duplicate_brush_stroke(
                                  image_states[p][k],
                                  IF p = q THEN others(image_states[q], k)
                                  ELSE image_states[q],
                                  margin)]
    /\ UNCHANGED <<scene, image_states, resident, orig, batch, flushes, ops, done>>

NextDuplicate ==
    \E p \in Pages : \E k \in 1..MaxStored : \E q \in Pages : \E margin \in Margins :
        IsDuplicate(p, k, q, margin)

SpecDuplicate == InitStorage /\ [][NextDuplicate]_vars

---------------------------------------------------------------------------
(* Saving the live strokes a second time *)

\* save_brush_strokes_to_states is called again with the same page lists
\* and an unchanged canvas
FlushAgain ==
    /\ last.op = "flush"
    /\ image_states' = save_brush_strokes_to_states(scene, image_states)
    /\ flushes' = flushes + 1
    /\ last' = Before("flush again", -1)
    /\ UNCHANGED <<scene, resident, orig, batch, ops, done>>

NextReflush ==
    \/ Flush
    \/ FlushAgain

SpecReflush == Init /\ [][NextReflush]_vars

---------------------------------------------------------------------------
(* Redistribution of the strokes a save stored *)

RECURSIVE collect_stored(_, _, _)
\* all_existing_brush_strokes as the caller builds it from the page lists:
\* every stored stroke, a distinct object, with the page that stores it; n
\* strokes were collected from the pages before
collect_stored(states, page, n) ==
    IF page >= NumPages THEN <<>>
    ELSE [k \in 1..Len(states[page]) |->
             [id |-> n + k, data |-> states[page][k], page |-> page]]
             \o collect_stored(states, page + 1, n + Len(states[page]))

\* the caller takes the stored strokes out of the page lists and starts with
\* fresh lists
Collect ==
    /\ last.op = "flush"
    /\ batch' = collect_stored(image_states, 0, 0)
    /\ image_states' = EmptyStates
    /\ last' = Before("collect", -1)
    /\ UNCHANGED <<scene, resident, orig, flushes, ops, done>>

NextReflow ==
    \/ Flush
    \/ Collect
    \/ Redistribute

SpecReflow == Init /\ [][NextReflow]_vars

---------------------------------------------------------------------------
(* Vocabulary of the properties *)

PathPoints(path) == {PointOf(path[i]) : i \in 1..Len(path)}

\* the vertex lies in page p: in its half-open band and within its width
InPage(pt, p) ==
    /\ get_page_at_position(pt.y) = p
    /\ page_bounds(p).left <= pt.x /\ pt.x <= page_bounds(p).right

\* the pages that hold at least one vertex of the path
VertexPages(path) == {p \in Pages : \E v \in PathPoints(path) : InPage(v, p)}

\* the path with every point mapped to page p's local coordinates, tags kept
LocalPath(path, p) ==
    [i \in 1..Len(path) |->
        Elem(path[i].type, scene_to_page_local_position(PointOf(path[i]), p))]

\* the drawn segments of a path: a LineTo and the element before it
Segments(path) == {i \in 2..Len(path) : path[i].type = LineToElement}

\* pt lies on the closed segment a -> b
OnSegment(pt, a, b) ==
    /\ (b.x - a.x) * (pt.y - a.y) = (b.y - a.y) * (pt.x - a.x)
    /\ (a.x <= pt.x /\ pt.x <= b.x) \/ (b.x <= pt.x /\ pt.x <= a.x)
    /\ (a.y <= pt.y /\ pt.y <= b.y) \/ (b.y <= pt.y /\ pt.y <= a.y)

\* the points where the segment a -> b crosses the edge of the rectangle r
SegmentCrossings(a, b, r) ==
    LET cs == ClipConstraints(a, b, r)
        tE == ClipEnter(cs, 4)
        tX == ClipExit(cs, 4)
    IN  IF a = b \/ (\E k \in 1..4 : cs[k].p = 0 /\ cs[k].q < 0) \/ ~FracLE(tE, tX)
        THEN {}
        ELSE (IF tE.n > 0 THEN {PointAt(a, b, tE)} ELSE {})
                 \cup (IF tX.n < tX.d THEN {PointAt(a, b, tX)} ELSE {})

\* the boundary-crossing points of a stroke
BoundaryCrossings(path) ==
    UNION {SegmentCrossings(PointOf(path[i - 1]), PointOf(path[i]), page_bounds(p)) :
               i \in Segments(path), p \in Pages}

\* a stroke drawn in one go: a MoveTo followed by at least one LineTo
Polyline(path) ==
    /\ Len(path) >= 2
    /\ \A i \in 2..Len(path) : path[i].type = LineToElement

\* no vertex of the path lies on the top or bottom edge of a page
Interior(path) ==
    \A i \in 1..Len(path) : \A p \in Pages :
        path[i].y # page_y(p) /\ path[i].y # page_y(p) + page_height(p)

\* the points of all live strokes
ScenePoints == UNION {PathPoints(scene[i].path) : i \in 1..Len(scene)}

\* the state right after the freshly drawn stroke was saved into empty states
FlushedFromDrawing ==
    /\ last.op = "flush"
    /\ last.scene = <<orig>>
    /\ last.states = EmptyStates

\* the drawn stroke was saved, the canvas cleared and every page loaded again
ReloadedAfterFlush ==
    /\ flushes = 1
    /\ done.unload = {}
    /\ done.load = Pages
    /\ resident = Pages

---------------------------------------------------------------------------
(* Properties *)

\* C1: lossless flush.  After save_brush_strokes_to_states and
\* load_brush_strokes on every page, the points of the loaded strokes are the
\* vertices of the drawn stroke plus boundary-crossing points only, and no
\* vertex that lies in some page is missing.
C1_LosslessFlush ==
    (ReloadedAfterFlush /\ Polyline(orig.path) /\ Interior(orig.path)) =>
        /\ \A v \in PathPoints(orig.path) :
              (\E p \in Pages : InPage(v, p)) => v \in ScenePoints
        /\ ScenePoints \subseteq
              PathPoints(orig.path) \cup BoundaryCrossings(orig.path)

\* C2: no invented detours.  Every line of every stored fragment, mapped to
\* scene coordinates, lies on one drawn segment of the stroke it was clipped
\* from.
C2_NoInventedDetours ==
    (FlushedFromDrawing /\ Polyline(orig.path)) =>
        \A p \in Pages : \A k \in 1..Len(image_states[p]) :
            LET f == image_states[p][k].path
            IN  \A i \in Segments(f) :
                    \E j \in Segments(orig.path) :
                        /\ OnSegment(page_local_to_scene_position(PointOf(f[i - 1]), p),
                                     PointOf(orig.path[j - 1]), PointOf(orig.path[j]))
                        /\ OnSegment(page_local_to_scene_position(PointOf(f[i]), p),
                                     PointOf(orig.path[j - 1]), PointOf(orig.path[j]))

\* the items of a canvas that are no longer on the canvas after the step,
\* in the order of self._scene.items()
Removed(before, after) ==
    SelectSeq(scene_items(before),
              LAMBDA it : \A i \in 1..Len(after) : after[i] # it)

RECURSIVE PageFragments(_, _)
\* the page-local strokes of the given items
PageFragments(items, p) ==
    IF Len(items) = 0 THEN <<>>
    ELSE <<convert_stroke_to_page_local(Head(items), p)>>
             \o PageFragments(Tail(items), p)

\* the drawn stroke was on the canvas with every page resident, and since
\* then pages were only unloaded
OnlyUnloads == flushes = 0 /\ done.load = {}

\* a fragment stored for page p holds the local image of every vertex of the
\* path that lies in p
Covered(path, p) ==
    \E k \in 1..Len(image_states[p]) :
        \A v \in PathPoints(path) :
            InPage(v, p) =>
                scene_to_page_local_position(v, p) \in PathPoints(image_states[p][k].path)

\* C3: evicting a multi-page stroke loses nothing.  Once unload_brush_strokes
\* was called for every page that holds a vertex of the drawn stroke (pages
\* for which the clipper has a fragment of it), each of these pages stores a
\* fragment with the stroke's vertices of that page.
C3_EvictLosesNothing ==
    (/\ OnlyUnloads
     /\ Polyline(orig.path)
     /\ Interior(orig.path)
     /\ Cardinality(VertexPages(orig.path)) >= 2
     /\ \A p \in VertexPages(orig.path) :
           convert_stroke_to_page_local(orig, p) # NoStroke
     /\ VertexPages(orig.path) \subseteq done.unload) =>
        \A p \in VertexPages(orig.path) : Covered(orig.path, p)

\* C4 as claimed: unload_brush_strokes appends.  The stored list of the page
\* after the call is the list before it followed by the fragments of the
\* strokes the call removed from the canvas.
C4_EvictAppends ==
    last.op = "unload" =>
        image_states[last.page] =
            last.states[last.page]
                \o PageFragments(Removed(last.scene, scene), last.page)

\* C4 as amended: unload_brush_strokes replaces.  The stored list of the page
\* after the call is exactly the fragments of the strokes the call removed
\* from the canvas (empty when it removed none), whatever was stored before;
\* the lists of the other pages are untouched.
C4_EvictReplaces ==
    last.op = "unload" =>
        /\ image_states[last.page] =
               PageFragments(Removed(last.scene, scene), last.page)
        /\ \A q \in Pages \ {last.page} : image_states[q] = last.states[q]

\* C4 witness: an unload of a page whose stored list was not empty and is
\* different afterwards
C4_Witness ==
    /\ last.op = "unload"
    /\ last.states[last.page] # <<>>
    /\ image_states[last.page] # last.states[last.page]
    /\ image_states[last.page] # <<>>

\* some fragment stored for page p has a path command at the local image of
\* the scene point v
StoredAt(v, p) ==
    \E k \in 1..Len(image_states[p]) :
        scene_to_page_local_position(v, p) \in PathPoints(image_states[p][k].path)

\* C5: boundary tie-break.  A vertex whose y is the boundary of pages P and
\* P + 1 belongs to P + 1 only: it is not stored in a fragment of P, so never
\* in fragments of both neighbours.
C5_BoundaryTieBreak ==
    (FlushedFromDrawing /\ Polyline(orig.path)) =>
        \A v \in PathPoints(orig.path) : \A P \in Pages :
            (P + 1 \in Pages /\ v.y = page_y(P + 1)) =>
                ~(StoredAt(v, P) /\ StoredAt(v, P + 1))

\* a straight vertical stroke through the column that every page covers, whose
\* two ends lie strictly inside pages
VerticalStroke(path) ==
    /\ Polyline(path)
    /\ \A i \in 1..Len(path) :
          /\ path[i].x = path[1].x
          /\ \A p \in Pages :
                page_bounds(p).left < path[i].x /\ path[i].x < page_bounds(p).right
    /\ \/ \A i \in 2..Len(path) : path[i - 1].y < path[i].y
       \/ \A i \in 2..Len(path) : path[i - 1].y > path[i].y
    /\ \A i \in {1, Len(path)} :
          \E p \in Pages : page_y(p) < path[i].y /\ path[i].y < page_y(p) + page_height(p)

\* the pages a vertical stroke runs through: those of its two ends and the
\* pages between them
CrossedPages(path) ==
    LET a == get_page_at_position(path[1].y)
        b == get_page_at_position(path[Len(path)].y)
    IN  {p \in Pages : (a <= p /\ p <= b) \/ (b <= p /\ p <= a)}

\* the fragment is one subpath that starts and ends on the page's top or
\* bottom edge unless the point is an end of the stroke
EdgeToEdge(f, p, path) ==
    /\ Polyline(f)
    /\ \A i \in {1, Len(f)} :
          \/ f[i].y = 0
          \/ f[i].y = page_height(p)
          \/ page_local_to_scene_position(PointOf(f[i]), p)
                 \in {PointOf(path[1]), PointOf(path[Len(path)])}

\* C6: partition correctness.  A straight vertical stroke that crosses k page
\* boundaries is stored as k + 1 fragments, one on each page crossed, each a
\* single subpath from edge to edge.
C6_VerticalPartition ==
    (FlushedFromDrawing /\ VerticalStroke(orig.path)) =>
        \A p \in Pages :
            IF p \in CrossedPages(orig.path)
            THEN /\ Len(image_states[p]) = 1
                 /\ EdgeToEdge(image_states[p][1].path, p, orig.path)
            ELSE image_states[p] = <<>>

\* C7: partition coverage.  A stroke of at least two vertices that all lie in
\* one page is stored as exactly one fragment on that page: the stroke's
\* elements one for one in local coordinates, tags kept, nothing inserted;
\* no other page gets a fragment.
C7_InsideOnePage ==
    (FlushedFromDrawing /\ Len(orig.path) >= 2) =>
        \A P \in Pages :
            (\A v \in PathPoints(orig.path) : InPage(v, P)) =>
                /\ image_states[P] =
                       <<StrokeData(LocalPath(orig.path, P),
                                    orig.pen, orig.brush, orig.width)>>
                /\ \A q \in Pages \ {P} : image_states[q] = <<>>

\* C7 witness: a stroke of three vertices inside the narrow page was saved
C7_Witness ==
    /\ FlushedFromDrawing
    /\ Len(orig.path) = 3
    /\ \A v \in PathPoints(orig.path) : InPage(v, 1)
    /\ Len(image_states[1]) = 1

\* C9: flush covers all touched pages.  Every page that holds a vertex of the
\* stroke gets a fragment with the stroke's pen, brush and width.
C9_FlushCoversTouchedPages ==
    (FlushedFromDrawing /\ Polyline(orig.path) /\ Interior(orig.path)) =>
        \A p \in VertexPages(orig.path) :
            \E k \in 1..Len(image_states[p]) :
                /\ image_states[p][k].pen = orig.pen
                /\ image_states[p][k].brush = orig.brush
                /\ image_states[p][k].width = orig.width

OneWithoutPath(b, k) ==
    /\ ~has_path(b[k].data)
    /\ \A i \in 1..Len(b) : i # k => has_path(b[i].data)

\* the list without its entry k
Without(b, k) == [i \in 1..(Len(b) - 1) |-> IF i < k THEN b[i] ELSE b[i + 1]]

\* how often x occurs in the sequence
Count(xs, x) == Cardinality({i \in 1..Len(xs) : xs[i] = x})

\* C10: isolation under malformed input.  With one stroke without path in
\* the list, the page lists hold what the list without that stroke gives, and
\* in addition the stroke itself, unchanged and once, on its recorded page.
C10_MalformedIsolated ==
    last.op = "redistribute" =>
        \A k \in 1..Len(batch) :
            OneWithoutPath(batch, k) =>
                LET clean == redistribute_existing_brush_strokes(
                                 Without(batch, k), EmptyStates)
                    bad   == batch[k].data
                IN  \A q \in Pages :
                        /\ SelectSeq(image_states[q], LAMBDA f : f # bad) = clean[q]
                        /\ Count(image_states[q], bad) =
                               IF q = batch[k].page THEN 1 ELSE 0

\* C10 witness: the stroke without path stood between two other strokes,
\* both of which were redistributed
C10_Witness ==
    /\ last.op = "redistribute"
    /\ Len(batch) = 3
    /\ OneWithoutPath(batch, 2)
    /\ batch[1].id # batch[3].id
    /\ has_bounding_rect(batch[1].data) /\ has_bounding_rect(batch[3].data)
    /\ \E q \in Pages : Len(image_states[q]) >= 2
    /\ Count(image_states[batch[2].page], batch[2].data) = 1

\* processing the entry in by_page fails: it has no path, its path is no
\* QPainterPath, or an error is raised while it is distributed
Failed(entry, by_page, order) ==
    \/ ~has_path(entry.data)
    \/ ~has_bounding_rect(entry.data)
    \/ process_single_brush_stroke_raising(scene_stroke_data(entry), by_page,
                                           order).raised

\* C11: failure in redistribute is a per-item no-op.  When the processing of
\* one stroke fails, also after some pages got output of it, the whole effect
\* of that stroke on the page lists is that the stroke itself is appended,
\* unchanged and once, to the list of its original page (which has a list).
C11_FailureIsNoOp ==
    last.op = "redistribute" =>
        \A n \in 1..Len(batch) :
            LET before == redistribute_upto(batch, n - 1, last.states, last.order)
                after  == IF n = Len(batch) THEN image_states
                          ELSE redistribute_upto(batch, n, last.states,
                                                 last.order).by_page
                e      == batch[n]
            IN  (/\ ~before.raised
                 /\ \A j \in 1..(n - 1) : batch[j].id # e.id
                 /\ before.by_page[e.page] # NoList
                 /\ Failed(e, before.by_page, last.order)) =>
                    after = [before.by_page EXCEPT ![e.page] = Append(@, e.data)]

\* the stored list the last load read
LoadedList == last.states[last.page]

\* C12: materialize normalises fill.  For every stored stroke of the loaded
\* page the live stroke has the mask fill exactly when the stored fill is the
\* mask colour; for every other stored fill, opaque ones too, it has no fill;
\* pen colour and width are those of the stored stroke.
C12_FillNormalised ==
    (last.op = "load" /\ \A k \in 1..Len(LoadedList) : has_path(LoadedList[k])) =>
        \A k \in 1..Len(LoadedList) :
            LET item == scene[Len(last.scene) + k]
            IN  /\ item.brush = MaskColor <=> LoadedList[k].brush = MaskColor
                /\ LoadedList[k].brush # MaskColor => item.brush = NoBrushColor
                /\ item.pen = LoadedList[k].pen
                /\ item.width = LoadedList[k].width

\* C12 witness: a page was loaded that stores a mask stroke and a stroke
\* with another opaque fill
C12_Witness ==
    /\ last.op = "load"
    /\ \A k \in 1..Len(LoadedList) : has_path(LoadedList[k])
    /\ \E k \in 1..Len(LoadedList) : LoadedList[k].brush = MaskColor
    /\ \E k \in 1..Len(LoadedList) :
          /\ LoadedList[k].brush = OtherBrushColor
          /\ scene[Len(last.scene) + k].brush = NoBrushColor

\* C13: materialize adds one live stroke per stored stroke.  After a load the
\* canvas holds what it held before and, for each stored stroke of the page
\* in order, one stroke whose elements are the stored ones mapped to scene
\* coordinates through that page; the stored lists are unchanged.
C13_OnePerFragment ==
    (last.op = "load" /\ \A k \in 1..Len(LoadedList) : has_path(LoadedList[k])) =>
        /\ Len(scene) = Len(last.scene) + Len(LoadedList)
        /\ SubSeq(scene, 1, Len(last.scene)) = last.scene
        /\ \A k \in 1..Len(LoadedList) :
              scene[Len(last.scene) + k].path =
                  [i \in 1..Len(LoadedList[k].path) |->
                      Elem(LoadedList[k].path[i].type,
                           page_local_to_scene_position(
                               PointOf(LoadedList[k].path[i]), last.page))]
        /\ image_states = last.states

\* C13 witness: the centred narrow page, whose local origin is not the
\* scene's, was loaded with two stored strokes onto a canvas that held a stroke
C13_Witness ==
    /\ last.op = "load"
    /\ last.page = 1
    /\ Len(last.scene) >= 1
    /\ Len(LoadedList) = 2
    /\ \A k \in 1..2 : has_path(LoadedList[k])
    /\ Len(scene) = Len(last.scene) + 2

\* the stored strokes with a path, as (page, position in the page's list),
\* pages in order and each list in order
RECURSIVE IndexedFrom(_, _, _)
IndexedFrom(states, page, k) ==
    IF page >= NumPages THEN <<>>
    ELSE IF k > Len(states[page]) THEN IndexedFrom(states, page + 1, 1)
    ELSE IF has_path(states[page][k]) /\ has_bounding_rect(states[page][k])
    THEN <<[page |-> page, k |-> k, data |-> states[page][k]]>>
             \o IndexedFrom(states, page, k + 1)
    ELSE IndexedFrom(states, page, k + 1)

\* the strokes the last merge read
MergeInput == IndexedFrom(last.states, 0, 1)

\* twice the centre of the stroke's bounding box in scene coordinates
GlobalCentre2(f) ==
    LET pts == PathPoints(f.data.path)
        xs  == {pt.x : pt \in pts}
        ys  == {pt.y : pt \in pts}
        lo(S) == CHOOSE m \in S : \A n \in S : m <= n
        hi(S) == CHOOSE m \in S : \A n \in S : m >= n
    IN  Point(lo(xs) + hi(xs) + 2 * page_x_offset(f.page),
              lo(ys) + hi(ys) + 2 * page_y(f.page))

\* the mergeable relation as specified
MergeableAsSpecified(f, g) ==
    /\ Abs(f.page - g.page) <= 1
    /\ Abs(GlobalCentre2(f).y - GlobalCentre2(g).y) <= 2 * 20
    /\ Abs(GlobalCentre2(f).x - GlobalCentre2(g).x) <= 2 * 50
    /\ f.data.pen = g.data.pen
    /\ f.data.width = g.data.width
    /\ f.data.brush = g.data.brush

\* C14: mergeable predicate.  Two stored strokes are mergeable exactly when
\* their pages differ by at most 1, their global bounding-box centres are at
\* most 20 apart vertically and at most 50 horizontally, and pen, width and
\* fill are identical; the relation is symmetric.
C14_Mergeable ==
    last.op = "merge" =>
        LET all_strokes == collect_all_strokes(last.states, 0)
        IN  \A i, j \in 1..Len(MergeInput) :
                /\ are_brush_strokes_mergeable(all_strokes[i], all_strokes[j])
                       <=> MergeableAsSpecified(MergeInput[i], MergeInput[j])
                /\ are_brush_strokes_mergeable(all_strokes[i], all_strokes[j])
                       <=> are_brush_strokes_mergeable(all_strokes[j], all_strokes[i])

\* C14 witness: the merge read a stroke of page 0, a stroke of page 1 whose
\* centre is exactly 20 below (mergeable) and a stroke of page 2 with the
\* centre and style of the first (not mergeable)
C14_Witness ==
    /\ last.op = "merge"
    /\ \E i, j, k \in 1..Len(MergeInput) :
          /\ MergeInput[i].page = 0 /\ MergeInput[j].page = 1 /\ MergeInput[k].page = 2
          /\ GlobalCentre2(MergeInput[j]).y - GlobalCentre2(MergeInput[i]).y = 2 * 20
          /\ MergeableAsSpecified(MergeInput[i], MergeInput[j])
          /\ GlobalCentre2(MergeInput[k]) = GlobalCentre2(MergeInput[i])
          /\ MergeInput[k].data.pen = MergeInput[i].data.pen
          /\ ~MergeableAsSpecified(MergeInput[i], MergeInput[k])

\* the groups the last merge formed, as indices into MergeInput
MergeGroups ==
    LET all_strokes == collect_all_strokes(last.states, 0)
    IN  IF Len(all_strokes) < 2 THEN <<>>
        ELSE merged_groups(all_strokes, 1, {}, <<>>)

RECURSIVE ConcatPaths(_, _)
\* the paths of the first k members of the group, one after the other
ConcatPaths(g, k) ==
    IF k = 0 THEN <<>> ELSE ConcatPaths(g, k - 1) \o MergeInput[g[k]].data.path

RECURSIVE SumCentre2Y(_, _)
SumCentre2Y(g, k) ==
    IF k = 0 THEN 0 ELSE SumCentre2Y(g, k - 1) + GlobalCentre2(MergeInput[g[k]]).y

\* page_at(average of the members' global centre y)
TargetPage(g) ==
    CHOOSE p \in Pages \cup {-1} :
        IF p = -1
        THEN \A q \in Pages :
                 ~(/\ 2 * Len(g) * page_y(q) <= SumCentre2Y(g, Len(g))
                   /\ SumCentre2Y(g, Len(g)) < 2 * Len(g) * (page_y(q) + page_height(q)))
        ELSE /\ 2 * Len(g) * page_y(p) <= SumCentre2Y(g, Len(g))
             /\ SumCentre2Y(g, Len(g)) < 2 * Len(g) * (page_y(p) + page_height(p))

\* the merged stroke of a group: all paths concatenated, style of the first
MergedStroke(g) ==
    [MergeInput[g[1]].data EXCEPT !.path = ConcatPaths(g, Len(g))]

\* the stroke at (page, k) was a member of some group
IsMember(page, k) ==
    \E n \in 1..Len(MergeGroups) : \E m \in 1..Len(MergeGroups[n]) :
        /\ MergeInput[MergeGroups[n][m]].page = page
        /\ MergeInput[MergeGroups[n][m]].k = k

RECURSIVE KeptFrom(_, _)
\* the strokes of the page's list from position k on that were in no group
KeptFrom(page, k) ==
    IF k > Len(last.states[page]) THEN <<>>
    ELSE IF IsMember(page, k) THEN KeptFrom(page, k + 1)
    ELSE <<last.states[page][k]>> \o KeptFrom(page, k + 1)

RECURSIVE MergedOnto(_, _)
\* the merged strokes of the first n groups whose target is the page
MergedOnto(page, n) ==
    IF n = 0 THEN <<>>
    ELSE IF TargetPage(MergeGroups[n]) = page
    THEN Append(MergedOnto(page, n - 1), MergedStroke(MergeGroups[n]))
    ELSE MergedOnto(page, n - 1)

Singleton(q, k) ==
    \A i \in 1..Len(MergeInput) :
        (MergeInput[i].page # q \/ MergeInput[i].k # k) =>
            ~MergeableAsSpecified(
                 [page |-> q, k |-> k, data |-> last.states[q][k]], MergeInput[i])

\* C16: singletons are untouched.  A stored stroke that is mergeable with no
\* other stored stroke is after the merge still in the list of its page,
\* with its path and style, and is in no group that was merged.
C16_SingletonsUntouched ==
    last.op = "merge" =>
        \A i \in 1..Len(MergeInput) :
            LET q == MergeInput[i].page
                k == MergeInput[i].k
            IN  Singleton(q, k) =>
                    /\ Count(image_states[q], last.states[q][k]) = 1
                    /\ \A n \in 1..Len(MergeGroups) :
                          \A m \in 1..Len(MergeGroups[n]) : MergeGroups[n][m] # i

\* C16 witness: the merge formed a group and left a stroke alone that has
\* the style of the group but lies more than 50 to the side
C16_Witness ==
    /\ last.op = "merge"
    /\ Len(MergeGroups) = 1
    /\ \E i \in 1..Len(MergeInput) :
          /\ Singleton(MergeInput[i].page, MergeInput[i].k)
          /\ MergeInput[i].data.pen = MergeInput[MergeGroups[1][1]].data.pen
          /\ MergeInput[i].data.brush = MergeInput[MergeGroups[1][1]].data.brush
          /\ MergeInput[i].data.width = MergeInput[MergeGroups[1][1]].data.width
          /\ Abs(GlobalCentre2(MergeInput[i]).x
                     - GlobalCentre2(MergeInput[MergeGroups[1][1]]).x) > 2 * 50
          /\ Count(image_states[MergeInput[i].page], MergeInput[i].data) = 1

\* the bounding box of a path: least x and y, and the extents
BBox(path) ==
    LET xs == {pt.x : pt \in PathPoints(path)}
        ys == {pt.y : pt \in PathPoints(path)}
        lo(S) == CHOOSE m \in S : \A n \in S : m <= n
        hi(S) == CHOOSE m \in S : \A n \in S : m >= n
    IN  <<lo(xs), lo(ys), hi(xs) - lo(xs), hi(ys) - lo(ys)>>

\* x, y, width and height each differ by at most the margin
BoxesWithin(a, b, margin) ==
    \A c \in 1..4 : Abs(BBox(a)[c] - BBox(b)[c]) <= margin

\* C17: is_duplicate.  For a candidate with a path and a margin >= 0 the
\* result is true exactly when some existing stroke has a bounding box whose
\* x, y, width and height each differ from the candidate's by at most the
\* margin; so it is true against a list that holds the candidate itself, and
\* false against a single stroke that differs by more in one of the four.
C17_IsDuplicate ==
    (last.op = "is_duplicate" /\ has_path(last.candidate)) =>
        /\ last.result <=>
               \E i \in 1..Len(last.existing) :
                   /\ has_path(last.existing[i])
                   /\ BoxesWithin(last.candidate.path, last.existing[i].path,
                                  last.margin)
        /\ is_duplicate_brush_stroke(last.candidate,
                                     Append(last.existing, last.candidate),
                                     last.margin)
        /\ (/\ Len(last.existing) = 1
            /\ has_path(last.existing[1])
            /\ \E c \in 1..4 :
                  Abs(BBox(last.candidate.path)[c] - BBox(last.existing[1].path)[c])
                      > last.margin) => ~last.result

\* C17 witness: a stroke was found to be a duplicate of a stroke whose
\* bounding box is not the same but within the margin, and the list also held
\* a stroke beyond the margin
C17_Witness ==
    /\ last.op = "is_duplicate"
    /\ has_path(last.candidate)
    /\ last.result
    /\ last.margin > 0
    /\ \A i \in 1..Len(last.existing) :
          has_path(last.existing[i]) =>
              BBox(last.existing[i].path) # BBox(last.candidate.path)
    /\ \E i \in 1..Len(last.existing) :
          /\ has_path(last.existing[i])
          /\ ~BoxesWithin(last.candidate.path, last.existing[i].path, last.margin)

\* C18: a stroke off every page.  When get_page_at_position gives no valid
\* page for any vertex of the stroke, saving it appends nothing to any page's
\* list.
C18_OffPageStroke ==
    (/\ FlushedFromDrawing
     /\ \A v \in PathPoints(orig.path) : get_page_at_position(v.y) \notin Pages) =>
        image_states = EmptyStates

\* C18 witness: a stroke of two vertices on the bottom edge of the last
\* page, which belongs to no page, was saved
C18_Witness ==
    /\ FlushedFromDrawing
    /\ Len(orig.path) >= 2
    /\ Cardinality(PathPoints(orig.path)) >= 2
    /\ \A v \in PathPoints(orig.path) : get_page_at_position(v.y) \notin Pages
    /\ image_states = EmptyStates

\* the point lies in the page's rectangle, edges included
InRect(pt, P) ==
    /\ page_bounds(P).left <= pt.x /\ pt.x <= page_bounds(P).right
    /\ page_bounds(P).top <= pt.y /\ pt.y <= page_bounds(P).bottom

\* segment i of the path has both ends outside page P's rectangle and runs
\* through it: it enters and leaves at two different points
PassesThrough(path, i, P) ==
    /\ ~InRect(PointOf(path[i - 1]), P)
    /\ ~InRect(PointOf(path[i]), P)
    /\ Cardinality(SegmentCrossings(PointOf(path[i - 1]), PointOf(path[i]),
                                    page_bounds(P))) = 2

\* where segment i enters and leaves page P, in P's local coordinates
EntryPoint(path, i, P) ==
    LET cs == ClipConstraints(PointOf(path[i - 1]), PointOf(path[i]), page_bounds(P))
    IN  scene_to_page_local_position(
            PointAt(PointOf(path[i - 1]), PointOf(path[i]), ClipEnter(cs, 4)), P)

ExitPoint(path, i, P) ==
    LET cs == ClipConstraints(PointOf(path[i - 1]), PointOf(path[i]), page_bounds(P))
    IN  scene_to_page_local_position(
            PointAt(PointOf(path[i - 1]), PointOf(path[i]), ClipExit(cs, 4)), P)

\* the fragment has at position j a LineTo to the point, and the subpath ends
\* there: the fragment ends or a MoveTo follows
ClosedBy(f, j, pt) ==
    /\ f[j] = Elem(LineToElement, pt)
    /\ j = Len(f) \/ f[j + 1].type = MoveToElement

\* C19: entry and exit within one segment.  When a segment has both ends
\* outside page P and crosses it, and P holds a vertex of the stroke, the
\* fragment of P has MoveTo(entry point) directly followed by LineTo(exit
\* point), and the subpath ends there.
C19_EntryAndExit ==
    (FlushedFromDrawing /\ Polyline(orig.path)) =>
        \A P \in Pages : \A i \in Segments(orig.path) :
            (/\ \E v \in PathPoints(orig.path) : get_page_at_position(v.y) = P
             /\ PassesThrough(orig.path, i, P)) =>
                \E k \in 1..Len(image_states[P]) :
                    LET f == image_states[P][k].path
                    IN  \E j \in 1..(Len(f) - 1) :
                            /\ f[j] = Elem(MoveToElement, EntryPoint(orig.path, i, P))
                            /\ ClosedBy(f, j + 1, ExitPoint(orig.path, i, P))

\* vertex i of the path is outside page P and the vertex before it inside
Leaves(path, i, P) ==
    /\ InRect(PointOf(path[i - 1]), P)
    /\ ~InRect(PointOf(path[i]), P)

\* the number of subpaths of a fragment
Subpaths(f) == Cardinality({j \in 1..Len(f) : f[j].type = MoveToElement})

\* the number of times the path comes back to page P after it left the page:
\* with a vertex in P, or with a segment between two vertices outside P that
\* meets P's rectangle
ReEntries(path, P) ==
    Cardinality({i \in 2..Len(path) :
                    /\ ~InRect(PointOf(path[i - 1]), P)
                    /\ \/ InRect(PointOf(path[i]), P)
                       \/ SegmentCrossings(PointOf(path[i - 1]), PointOf(path[i]),
                                           page_bounds(P)) # {}
                    /\ \E l \in 2..(i - 1) : Leaves(path, l, P)})

InLocalBox(pt, p) ==
    /\ 0 <= pt.x /\ pt.x <= page_width(p)
    /\ 0 <= pt.y /\ pt.y <= page_height(p)

\* the scene vertex lies in page p's vertical band but to the side of the page
BesidePage(v, p) ==
    /\ page_bounds(p).top <= v.y /\ v.y <= page_bounds(p).bottom
    /\ v.x < page_bounds(p).left \/ v.x > page_bounds(p).right

\* C21: fragments stay inside their page.  Every point of every stored
\* fragment of page P, intersection points included, lies in P's local box
\* 0 <= x <= w, 0 <= y <= h; a vertex of the drawn stroke whose x is outside
\* [xoff, xoff + w] is in no fragment of P, as a vertex whose y is outside
\* P's band is in none.
C21_FragmentsInsidePage ==
    /\ \A P \in Pages : \A k \in 1..Len(image_states[P]) :
          \A pt \in PathPoints(image_states[P][k].path) : InLocalBox(pt, P)
    /\ FlushedFromDrawing =>
          \A P \in Pages : \A v \in PathPoints(orig.path) :
              ~InRect(v, P) => ~StoredAt(v, P)

\* C21 witness: a stroke with a vertex beside the narrow page was saved, and
\* the page's fragment ends on the page's side edge
C21_Witness ==
    /\ FlushedFromDrawing
    /\ \E v \in PathPoints(orig.path) : BesidePage(v, 1)
    /\ \E k \in 1..Len(image_states[1]) :
          LET f == image_states[1][k].path
          IN  /\ f[Len(f)].type = LineToElement
              /\ f[Len(f)].x \in {0, page_width(1)}
              /\ 0 < f[Len(f)].y /\ f[Len(f)].y < page_height(1)

\* C22: fewer than two points, no fragment.  Saving a stroke whose path has
\* no element or a single MoveTo appends nothing to any page's list.
C22_ShortStroke ==
    (FlushedFromDrawing /\ Len(orig.path) < 2) => image_states = EmptyStates

\* C22 witness: a stroke whose single MoveTo lies inside the narrow page was
\* saved; the clipper made a path for the page, and nothing was stored
C22_Witness ==
    /\ FlushedFromDrawing
    /\ Len(orig.path) = 1
    /\ InPage(PointOf(orig.path[1]), 1)
    /\ ~create_page_path(orig.path, 1).none
    /\ image_states = EmptyStates

\* the stroke without elements was saved
SavedWithoutElements ==
    FlushedFromDrawing /\ Len(orig.path) = 0 /\ image_states = EmptyStates

RECURSIVE Component(_)
\* the strokes of MergeInput linked to a stroke of S by a chain of pairwise
\* mergeable strokes
Component(S) ==
    LET T == S \cup {j \in 1..Len(MergeInput) :
                        \E i \in S : MergeableAsSpecified(MergeInput[i], MergeInput[j])}
    IN  IF T = S THEN S ELSE Component(T)

\* strokes i and j of MergeInput were put into the same group
SameGroup(i, j) ==
    \E n \in 1..Len(MergeGroups) :
        /\ \E m \in 1..Len(MergeGroups[n]) : MergeGroups[n][m] = i
        /\ \E m \in 1..Len(MergeGroups[n]) : MergeGroups[n][m] = j

\* C23: groups are connected components.  Any two stored strokes linked by a
\* chain of pairwise mergeable strokes are in the same group of the merge,
\* also when the two are not mergeable with each other.
C23_ConnectedComponents ==
    last.op = "merge" =>
        \A i, j \in 1..Len(MergeInput) :
            (i # j /\ j \in Component({i})) => SameGroup(i, j)

RECURSIVE TotalStored(_, _)
\* the number of strokes stored on the pages page, page + 1, ...
TotalStored(states, page) ==
    IF page >= NumPages THEN 0
    ELSE Len(states[page]) + TotalStored(states, page + 1)

RECURSIVE GroupSizesLessOne(_)
\* the sum over the first n groups of (group size - 1)
GroupSizesLessOne(n) ==
    IF n = 0 THEN 0 ELSE GroupSizesLessOne(n - 1) + Len(MergeGroups[n]) - 1

\* the strokes at the end of the page's list that the merge appended
AppendedTo(q) ==
    SubSeq(image_states[q], Len(KeptFrom(q, 1)) + 1, Len(image_states[q]))

RECURSIVE AllAppended(_)
AllAppended(page) ==
    IF page >= NumPages THEN <<>> ELSE AppendedTo(page) \o AllAppended(page + 1)

FirstOccurrence(b, n) == \A j \in 1..(n - 1) : b[j].id # b[n].id

RECURSIVE EachOnce(_, _)
\* the page lists after the first n entries when every stroke object is
\* processed at its first occurrence and nowhere else
EachOnce(b, n) ==
    IF n = 0 THEN EmptyStates
    ELSE IF FirstOccurrence(b, n)
    THEN redistribute_entry(b[n], EachOnce(b, n - 1))
    ELSE EachOnce(b, n - 1)

\* C25: redistribute processes each stroke once.  When the same stroke object
\* occurs more than once in the list, with the same or with another recorded
\* page, only its first occurrence is processed: the page lists get its
\* output (the clipped strokes, or the stroke kept as it is) exactly once.
C25_ProcessedOnce ==
    last.op = "redistribute" => image_states = EachOnce(batch, Len(batch))

\* C25 witness: the first stroke of the list, which has a path and gave a
\* stored stroke, occurs again at the end with another recorded page; the
\* page lists hold the output of the first two entries only
C25_Witness ==
    /\ last.op = "redistribute"
    /\ Len(batch) = 3
    /\ batch[2].id = 2
    /\ batch[3].id = 1
    /\ batch[3].page # batch[1].page
    /\ has_path(batch[1].data) /\ has_bounding_rect(batch[1].data)
    /\ redistribute_entry(batch[1], EmptyStates) # EmptyStates
    /\ redistribute_entry(batch[3], EmptyStates)
           # redistribute_entry(batch[1], EmptyStates)
    /\ image_states =
           redistribute_entry(batch[2], redistribute_entry(batch[1], EmptyStates))

\* the stored stroke has a path that QPainterPath can hold, and its style
WellFormed(data) ==
    /\ has_path(data) /\ has_bounding_rect(data)
    /\ IsQPath(data.path)

\* the stored path with every point mapped to scene coordinates through the
\* recorded page
GlobalPath(e) ==
    [i \in 1..Len(e.data.path) |->
        Elem(e.data.path[i].type,
             page_local_to_scene_position(PointOf(e.data.path[i]), e.page))]

\* what the per-stroke logic of save_brush_strokes_to_states appends for the
\* stroke of the entry mapped to scene coordinates, with the entry's style
FlushLogic(e, by_page) ==
    process_single_brush_stroke(
        StrokeData(GlobalPath(e), e.data.pen, e.data.brush, e.data.width), by_page)

RECURSIVE AsFlushed(_, _)
\* the page lists after the first n entries when every well-formed stroke is
\* handled by FlushLogic
AsFlushed(b, n) ==
    IF n = 0 THEN EmptyStates
    ELSE IF ~FirstOccurrence(b, n) THEN AsFlushed(b, n - 1)
    ELSE IF WellFormed(b[n].data) THEN FlushLogic(b[n], AsFlushed(b, n - 1))
    ELSE keep_on_original_page(b[n], AsFlushed(b, n - 1))

\* redistribute appends for a well-formed stroke what the per-stroke logic of
\* the save appends for the stroke in scene coordinates
AgreesWithFlush ==
    last.op = "redistribute" => image_states = AsFlushed(batch, Len(batch))

\* a well-formed stroke whose vertices lie in two pages has a fragment, with
\* its style, on both
SpanningOnBoth ==
    last.op = "redistribute" =>
        \A n \in 1..Len(batch) :
            (/\ WellFormed(batch[n].data)
             /\ Cardinality(VertexPages(GlobalPath(batch[n]))) = 2) =>
                \A P \in VertexPages(GlobalPath(batch[n])) :
                    \E k \in 1..Len(image_states[P]) :
                        /\ WellFormed(image_states[P][k])
                        /\ image_states[P][k].pen = batch[n].data.pen
                        /\ image_states[P][k].brush = batch[n].data.brush
                        /\ image_states[P][k].width = batch[n].data.width

\* C26: redistribute agrees with the save.  For a well-formed stored stroke
\* recorded on page O the strokes redistribute appends are those the
\* per-stroke logic of the save appends for the stroke mapped to scene
\* coordinates through O, with the same style; so a stroke that spans two
\* pages is output on both.
C26_AgreesWithFlush ==
    AgreesWithFlush /\ SpanningOnBoth

\* C27: no double counting on insert.  No save appends to a page's list a
\* stroke that is_duplicate_brush_stroke reports as a duplicate of one the
\* list holds already; saving an unchanged canvas a second time leaves every
\* page's list as the first save left it, with one copy of each stroke.
C27_NoDoubleCounting ==
    /\ last.op \in {"flush", "flush again"} =>
          \A p \in Pages :
              \A k \in (Len(last.states[p]) + 1)..Len(image_states[p]) :
                  ~is_duplicate_brush_stroke(image_states[p][k],
                                             SubSeq(image_states[p], 1, k - 1),
                                             margin_default)
    /\ (last.op = "flush again" /\ scene = last.scene) =>
          image_states = last.states

\* the points of a stored path in scene coordinates, mapped through page p
GlobalPoints(path, p) ==
    {page_local_to_scene_position(pt, p) : pt \in PathPoints(path)}

\* the points of the members of a group in scene coordinates, each mapped
\* through the page that stores it
MemberPoints(g) ==
    UNION {GlobalPoints(MergeInput[g[m]].data.path, MergeInput[g[m]].page) :
               m \in 1..Len(g)}

\* C28: merging preserves global geometry.  For every merged group the
\* target page stores a stroke whose points, mapped to scene coordinates
\* through the target page, are the points of the members, each mapped
\* through its own page.
C28_MergeKeepsGeometry ==
    last.op = "merge" =>
        \A n \in 1..Len(MergeGroups) :
            TargetPage(MergeGroups[n]) \in Pages =>
                \E k \in 1..Len(image_states[TargetPage(MergeGroups[n])]) :
                    GlobalPoints(image_states[TargetPage(MergeGroups[n])][k].path,
                                 TargetPage(MergeGroups[n]))
                        = MemberPoints(MergeGroups[n])

\* no stroke of the canvas overlaps the band of page P, by the test unload
\* makes
NothingInBand(sc, P) ==
    \A i \in 1..Len(sc) :
        \/ item_bottom(sc[i]) < page_y(P)
        \/ item_top(sc[i]) > page_y(P) + page_height(P)

\* the step is unload_brush_strokes for the page that the step before it
\* loaded onto a canvas with no stroke in the page's band
UnloadAfterLoad ==
    /\ last.op = "load"
    /\ last'.op = "unload"
    /\ last'.page = last.page
    /\ NothingInBand(last.scene, last.page)

\* C29: load then unload is a round trip.  When a page is loaded onto a
\* canvas with no stroke in its band and unloaded directly afterwards, the
\* page's list holds the strokes it held before the load, with their points,
\* style and number, the canvas is what it was before the load, with no
\* stroke of the page, and the other lists are untouched; the state is the
\* one before the pair, so repeating the pair changes nothing.
C29_LoadUnloadRoundTrip ==
    [][UnloadAfterLoad =>
          /\ image_states' = last.states
          /\ scene' = last.scene
          /\ NothingInBand(scene', last.page)]_vars

\* C29 witness: a page with a stored stroke of three elements was unloaded
\* from a canvas that held exactly what loading it onto an empty canvas
\* gives; the list is as before and the canvas is empty
C29_Witness ==
    /\ last.op = "unload"
    /\ last.page \in done.load
    /\ last.states[last.page] # <<>>
    /\ Len(last.states[last.page][1].path) = 3
    /\ last.scene = load_brush_strokes_scene(<<>>, last.states[last.page], last.page)
    /\ image_states = last.states
    /\ scene = <<>>

\* the page lists the strokes of the list were collected from
CollectedFrom(b) == stored_states(b, Len(b))

\* C30: redistribute is the identity under unchanged geometry.  When the
\* list holds all the strokes a save stored, each with the page that stored
\* it, redistributing them into empty page lists gives every page the
\* strokes it had, with their local points and style: none lost, none added,
\* none moved.
C30_RedistributeIdentity ==
    (last.op = "redistribute" /\ flushes = 1) =>
        image_states = CollectedFrom(batch)

====
